---------------------------- MODULE Spec2Model ----------------------------
(***************************************************************************)
(* The conversation of the insurance bot: the handlers of                  *)
(* handlers/conversation_handlers.py, dispatched by the ConversationHandler*)
(* built in get_conversation_handler, over the per-user record             *)
(* context.user_data, with the two Mindee clients and the Groq client of   *)
(* services/ as collaborators whose answers are inputs of the handlers.    *)
(* A second specification, ClientSpec, follows the requests of one Mindee  *)
(* client through MindeeBaseAPI._make_request, with the time they take.    *)
(***************************************************************************)
EXTENDS Integers, Sequences, FiniteSets, TLC

VARIABLES
    state,      \* the state ConversationHandler holds for the user (END: none)
    user_data,  \* context.user_data: a dict with the optional keys
                \*   "passport_data" and "vehicle_data"
    keyboard,   \* callback_data of the buttons under the message the bot sent
                \*   or edited last
    calls,      \* collaborator calls made by the handler that ran last, in order
    last,       \* the update handled last: handler, input and outcome
    retry_delay, \* a Mindee client: self.retry_delay
    pc,         \* "idle", or "loop" inside the for loop of _make_request
    request_attempt, \* the loop variable `attempt` of _make_request
    clock,      \* the time, in seconds
    sent,       \* the times at which requests.request was called
    slept,      \* the time.sleep made last: after which attempt, how long
    outcome,    \* how the last _make_request ended
    received,   \* what the last requests.request came to
    caller,     \* the client method that is running, "-" when none is
    poll_attempt, \* the loop variable `attempt` of get_result
    polled,     \* the status poll made last: attempt, status, sleep after it
    returned,    \* what the client method that ended last returned
    chats,      \* context.user_data of each of the chats that press "agree"
    handling,   \* for each chat, how far its run of handle_agreement has come
    files       \* the working directory: the content of each file, by path

conversation_vars == <<state, user_data, keyboard, calls, last>>

request_vars == <<retry_delay, pc, request_attempt, clock, sent, slept, outcome, received>>

method_vars == <<caller, poll_attempt, polled, returned>>

client_vars == <<retry_delay, pc, request_attempt, clock, sent, slept, outcome, received,
                 caller, poll_attempt, polled, returned>>

agreement_vars == <<chats, handling, files>>

vars == <<state, user_data, keyboard, calls, last,
          retry_delay, pc, request_attempt, clock, sent, slept, outcome, received,
          caller, poll_attempt, polled, returned,
          chats, handling, files>>

(***************************************************************************)
(* Python values.  A dict is a function from its keys; None in a field is  *)
(* the string None, None in place of a dict is NoneDict.                   *)
(***************************************************************************)
None == "<None>"
NoneDict == [none |-> TRUE]
EmptyDict == <<>>

\* `not v` for a field value: None, the empty string and the empty list
Falsy(v) == v \in {None, "", "[]"}

\* `not d` for an Optional[Dict]
NotDict(d) == d = NoneDict \/ DOMAIN d = {}

\* d.get(k, default)
Get(d, k, default) == IF k \in DOMAIN d THEN d[k] ELSE default

\* d[k] = v  (adds or overwrites one key)
Put(d, k, v) == [x \in DOMAIN d \cup {k} |-> IF x = k THEN v ELSE d[x]]

\* d.update(e)
Update(d, e) == [x \in DOMAIN d \cup DOMAIN e |-> IF x \in DOMAIN e THEN e[x] ELSE d[x]]

\* d.setdefault(k, v)
SetDefault(d, k, v) == IF k \in DOMAIN d THEN d ELSE Put(d, k, v)

\* str(v) as an f-string prints it
Str(v) == IF v = None THEN "None" ELSE v

(***************************************************************************)
(* Conversation states (config.constants, ConversationHandler.END).        *)
(***************************************************************************)
AWAITING_PHOTO == "AWAITING_PHOTO"
AWAITING_CONFIRM == "AWAITING_CONFIRM"
AWAITING_MANUAL_DATA == "AWAITING_MANUAL_DATA"
AWAITING_TECH_PASSPORT_1 == "AWAITING_TECH_PASSPORT_1"
AWAITING_TECH_PASSPORT_2 == "AWAITING_TECH_PASSPORT_2"
AWAITING_MANUAL_VEHICLE_DATA == "AWAITING_MANUAL_VEHICLE_DATA"
AWAITING_VEHICLE_CONFIRM == "AWAITING_VEHICLE_CONFIRM"
AWAITING_AGREEMENT == "AWAITING_AGREEMENT"
END == "END"

States ==
    { AWAITING_PHOTO, AWAITING_CONFIRM, AWAITING_MANUAL_DATA,
      AWAITING_TECH_PASSPORT_1, AWAITING_TECH_PASSPORT_2,
      AWAITING_MANUAL_VEHICLE_DATA, AWAITING_VEHICLE_CONFIRM,
      AWAITING_AGREEMENT }


(***************************************************************************)
(* services/mindee_service.py: the two OCR clients.  What the provider     *)
(* answers is an input of the handler that calls the client.               *)
(***************************************************************************)
max_attempts == 5

\* What one upload's _make_request comes to: it raises once the attempts are
\* used up on errors, it falls out of its loop with nothing when every
\* attempt met HTTP 429, or it returns the provider's response.
UploadResponses ==
    { [kind |-> "raise",    status |-> 0,   job_id |-> None],
      [kind |-> "nothing",  status |-> 0,   job_id |-> None],
      [kind |-> "response", status |-> 202, job_id |-> "job1"],
      [kind |-> "response", status |-> 202, job_id |-> None],
      [kind |-> "response", status |-> 200, job_id |-> "job1"] }

\* Variant: the status of the response is not looked at.
upload_document_any_status(r) ==
    IF r.kind # "response" THEN None ELSE r.job_id

\* upload_document: the job id of a 202 response that carries one, else None
\* (an exception, and the attribute error on a missing response, are caught).
upload_document(r) ==
    IF r.kind # "response" THEN None
    ELSE IF r.status = 202 /\ r.job_id # None THEN r.job_id
    ELSE None

\* The provider's answers to the status polls of one job: `pending` polls
\* answered `pend` ("processing", or "error": the request failed), and every
\* later poll answered `final`.
PollScripts ==
    [ pending : 0..max_attempts,
      pend    : {"processing", "error"},
      final   : {"completed_doc", "completed_nodoc", "failed"} ]

PollAnswer(script, attempt) ==
    IF attempt < script.pending THEN script.pend ELSE script.final

\* The status JSON of a completed job that names no document.
QueueData == [job |-> [status |-> "completed"]]

\* get_result: the polling loop, attempt = 0 .. max_attempts - 1.
RECURSIVE PollLoop(_, _, _)
PollLoop(script, fetched, attempt) ==
    IF attempt >= max_attempts THEN NoneDict
    ELSE LET answer == PollAnswer(script, attempt) IN
         CASE answer = "completed_doc"   -> fetched
           [] answer = "completed_nodoc" -> QueueData
           [] answer = "failed"          -> NoneDict
           [] answer = "error" ->
                IF attempt = max_attempts - 1 THEN NoneDict
                ELSE PollLoop(script, fetched, attempt + 1)
           [] OTHER -> PollLoop(script, fetched, attempt + 1)

get_result(job_id, script, fetched) ==
    IF Falsy(job_id) THEN NoneDict ELSE PollLoop(script, fetched, 0)

\* Whether the loop reaches the fetch of the finished document.
Fetches(script) ==
    script.final = "completed_doc" /\ script.pending < max_attempts

\* response.get('document', {}).get('inference', {}).get('prediction', {}):
\* the prediction dict (field -> value), {} when a level is missing; a level
\* that is null makes .get raise, which the extractors catch.
Malformed(response) == "document" \in DOMAIN response /\ response["document"] = NoneDict

Prediction(response) ==
    IF "document" \in DOMAIN response THEN response["document"] ELSE EmptyDict

\* MindeePassportAPI.extract_passport_data
extract_passport_data(response) ==
    IF NotDict(response) \/ Malformed(response) THEN NoneDict
    ELSE LET prediction == Prediction(response) IN
         [ document_type    |-> Get(prediction, "document_type", None),
           document_number  |-> Get(prediction, "document_number", None),
           surname          |-> Get(prediction, "surnames", None),
           given_name       |-> Get(prediction, "given_names", None),
           sex              |-> Get(prediction, "sex", None),
           birth_date       |-> Get(prediction, "birth_date", None),
           nationality      |-> Get(prediction, "nationality", None),
           personal_number  |-> Get(prediction, "personal_number", None),
           country_of_issue |-> Get(prediction, "country_of_issue", None),
           issue_date       |-> Get(prediction, "issue_date", None),
           expiration_date  |-> Get(prediction, "expiration_date", None),
           tech_passport    |-> None ]

\* MindeeVehicleAPI.extract_vehicle_data: the fields that are not None
\* (insurance_details defaults to the empty list, which is not None).
VehicleKeys ==
    { "vehicle_registration_number", "registration_date", "owner_name",
      "vehicle_identification_number", "make", "insurance_details" }

extract_vehicle_data(response) ==
    IF NotDict(response) \/ Malformed(response) THEN NoneDict
    ELSE LET prediction == Prediction(response)
             vehicle_data ==
                 [ k \in VehicleKeys |->
                     Get(prediction, k, IF k = "insurance_details" THEN "[]" ELSE None) ]
         IN  [ k \in {x \in VehicleKeys : vehicle_data[x] # None} |-> vehicle_data[k] ]

(***************************************************************************)
(* The documents photographed: the predictions the provider can return.    *)
(***************************************************************************)
PassportPredictions ==
    { [ surnames |-> "Ivanov", given_names |-> "Ivan", document_number |-> "KM123456",
        nationality |-> "Ukraine", birth_date |-> "1990-05-15" ],
      EmptyDict }

VehiclePredictions ==
    { [ vehicle_registration_number |-> "AA1234BB", registration_date |-> "2020-01-15",
        owner_name |-> "Petro Petrenko", insurance_details |-> "[policy]" ],
      [ make |-> "Toyota Camry", vehicle_identification_number |-> "JT2BF22K3W0123456" ],
      [ vehicle_registration_number |-> "BB5678CC" ],
      EmptyDict }

\* What the fetch of a finished document returns: nothing (the request
\* failed), an empty JSON object, a document that is null, or a prediction.
Payloads(predictions) ==
    { NoneDict, EmptyDict, [document |-> NoneDict] }
        \cup { [document |-> p] : p \in predictions }

(***************************************************************************)
(* handlers/conversation_handlers.py                                       *)
(***************************************************************************)
\* A transport failure while a photo is handled: none, the download of the
\* photo raises (before any call of the client), or the handler's last
\* reply raises.
Faults == {"none", "download", "reply"}

\* The record of one handled update.
Event(h) ==
    [ h      |-> h,          \* the handler that ran
      data   |-> None,       \* callback_data of the button pressed
      job_id |-> None,       \* what upload_document returned
      answer |-> "-",        \* get_result: "-" not called, "none", "payload"
      rec    |-> NoneDict,   \* what the extractor returned
      lines  |-> <<>>,       \* the text received, split at newlines
      shown  |-> NoneDict,   \* the vehicle data shown for confirmation
      completion |-> None,   \* what chat_completion returned
      prompt     |-> NoneDict, \* the prompt generate_insurance_policy built
      policy     |-> NoneDict, \* the policy text it returned
      exc    |-> "none" ]    \* "none", "caught" (by the handler), "unhandled"

\* The user_data entries, {} when the key is absent: user_data.get(k, {})
GetData(k) == IF k \in DOMAIN user_data THEN user_data[k] ELSE EmptyDict

\* What a handler's run comes to: the state returned, the record, the
\* buttons under the message sent or edited last, the collaborator calls.
\* A handler that raises returns no state and the conversation keeps its own.
Done(event, next, record, buttons, log) ==
    /\ last' = event
    /\ state' = IF event.exc = "unhandled" THEN state ELSE next
    /\ user_data' = record
    /\ keyboard' = buttons
    /\ calls' = log
    /\ UNCHANGED client_vars
    /\ UNCHANGED agreement_vars

\* start: asks for the passport photo.
StartButtons == {"restart"}

start ==
    Done(Event("start"), AWAITING_PHOTO, user_data, StartButtons, <<>>)

\* suggest_manual_input
ManualButtons == {"back_to_photo", "restart"}

suggest_manual_input == AWAITING_MANUAL_DATA

\* show_data_for_confirmation: data[k] raises KeyError on a missing key.
ConfirmButtons == {"confirm", "edit", "back_to_photo", "restart"}

DisplayKeys == {"surname", "given_name", "document_number", "nationality", "birth_date"}

show_data_for_confirmation(data) ==
    IF DisplayKeys \subseteq DOMAIN data
    THEN [exc |-> "none", next |-> AWAITING_CONFIRM, buttons |-> ConfirmButtons]
    ELSE [exc |-> "unhandled", next |-> AWAITING_CONFIRM, buttons |-> keyboard]

\* The provider's part in the handling of one photo: its answer to the
\* upload, to the polls and to the fetch (the polls and the fetch only when
\* the handler gets that far).
AcceptedUpload == [kind |-> "response", status |-> 202, job_id |-> "job1"]

NoPolls == [pending |-> 0, pend |-> "processing", final |-> "failed"]

OcrRuns(predictions) ==
    { [up |-> up, script |-> NoPolls, fetched |-> NoneDict] :
        up \in UploadResponses \ {AcceptedUpload} }
    \cup { [up |-> AcceptedUpload, script |-> script, fetched |-> NoneDict] :
             script \in {sc \in PollScripts : ~Fetches(sc)} }
    \cup { [up |-> AcceptedUpload, script |-> script, fetched |-> fetched] :
             script \in {sc \in PollScripts : Fetches(sc)},
             fetched \in Payloads(predictions) }

\* What the client hands the handler in those runs: the job id of the upload
\* and the payload awaited for it.
OcrOutcomes(predictions) ==
    { [ job_id |-> upload_document(run.up),
        mindee_response |-> get_result(upload_document(run.up), run.script, run.fetched) ] :
      run \in OcrRuns(predictions) }

PassportOutcomes == OcrOutcomes(PassportPredictions)

VehicleOutcomes == OcrOutcomes(VehiclePredictions)

\* A photo handler's except clause: the reply "try again", the same state.
PhotoFailed(event, same, record, log) ==
    Done([event EXCEPT !.exc = "caught", !.shown = NoneDict], same, record, {}, log)

\* handle_photo: the passport photo.
handle_photo ==
    /\ state = AWAITING_PHOTO
    /\ \/ PhotoFailed(Event("handle_photo"), AWAITING_PHOTO, user_data, <<>>)
       \/ \E run \in PassportOutcomes, fault \in Faults \ {"download"} :
            LET job_id == run.job_id
                mindee_response == run.mindee_response
                passport_data == extract_passport_data(mindee_response)
                ev1 == [Event("handle_photo") EXCEPT !.job_id = job_id]
                ev2 == [ev1 EXCEPT !.answer =
                           IF NotDict(mindee_response) THEN "none" ELSE "payload"]
                ev3 == [ev2 EXCEPT !.rec = passport_data]
                Reply(ev, next, record, buttons, log) ==
                    IF fault = "reply"
                    THEN PhotoFailed(ev, AWAITING_PHOTO, record, log)
                    ELSE Done(ev, next, record, buttons, log)
            IN  IF Falsy(job_id)
                THEN Reply(ev1, suggest_manual_input, user_data, ManualButtons,
                           <<"upload_document">>)
                ELSE IF NotDict(mindee_response)
                THEN Reply(ev2, suggest_manual_input, user_data, ManualButtons,
                           <<"upload_document", "get_result">>)
                ELSE IF NotDict(passport_data)
                THEN Reply(ev3, suggest_manual_input, user_data, ManualButtons,
                           <<"upload_document", "get_result", "save_mindee_response">>)
                ELSE LET view == show_data_for_confirmation(passport_data)
                         record == Put(user_data, "passport_data", passport_data)
                         log == <<"upload_document", "get_result", "save_mindee_response">>
                     IN  IF view.exc # "none"
                         THEN PhotoFailed(ev3, AWAITING_PHOTO, record, log)
                         ELSE Reply(ev3, view.next, record, view.buttons, log)

\* The buttons the bot ever sends.  Earlier messages stay in the chat with
\* their keyboards, a handler edits only the message whose button was
\* pressed, and /start re-enters the conversation from any state without
\* touching the record, so the chat of a user who went through the
\* conversation before holds every button: any of them can be pressed at
\* any time, and the state's handlers decide which presses are handled.
AllButtons ==
    { "restart", "back_to_photo", "confirm", "edit", "back_to_passport_confirm",
      "back_to_passport_data", "back_to_tech_passport_1", "confirm_vehicle",
      "edit_vehicle", "back_to_tech_passport_2", "agree", "decline",
      "back_to_vehicle_confirm" }

Pressed(data) == data \in AllButtons

\* confirm_data
TechPassport1Buttons == {"back_to_passport_confirm", "restart"}

confirm_data ==
    /\ state = AWAITING_CONFIRM
    /\ Pressed("confirm")
    /\ Done([Event("confirm_data") EXCEPT !.data = "confirm"],
            AWAITING_TECH_PASSPORT_1, user_data, TechPassport1Buttons, <<>>)

\* edit_data
edit_data ==
    /\ state = AWAITING_CONFIRM
    /\ Pressed("edit")
    /\ Done([Event("edit_data") EXCEPT !.data = "edit"],
            suggest_manual_input, user_data, ManualButtons, <<>>)

(***************************************************************************)
(* The texts typed: text.split('\n') is the sequence of the text's lines.  *)
(***************************************************************************)
MaxLines == 6

Line(i) == "L" \o ToString(i)
Pad(line) == " " \o line \o " "
BlankLine == "  "

\* line.strip() on the lines typed
strip(line) ==
    IF line \in {"", BlankLine} THEN ""
    ELSE IF \E i \in 1..(MaxLines + 1) : line = Pad(Line(i))
    THEN CHOOSE l \in {Line(i) : i \in 1..(MaxLines + 1)} : line = Pad(l)
    ELSE line

\* n lines of data; and n lines of which the first is padded by spaces and
\* the second is blank.
Texts ==
    { [i \in 1..n |-> Line(i)] : n \in 1..MaxLines }
    \cup { [i \in 1..n |-> IF i = 1 THEN Pad(Line(1))
                           ELSE IF i = 2 THEN BlankLine ELSE Line(i - 1)] :
             n \in 2..MaxLines }

\* [line.strip() for line in text.split('\n') if line.strip()]
IsNonBlank(line) == line # ""

\* Variant: the blank lines are not dropped.
PartsKeepBlank(lines) == [i \in 1..Len(lines) |-> strip(lines[i])]

Parts(lines) == SelectSeq([i \in 1..Len(lines) |-> strip(lines[i])], IsNonBlank)

\* handle_manual_data: five lines of passport data.
ManualPassport(parts) ==
    [ surname         |-> parts[1],
      given_name      |-> parts[2],
      passport_number |-> parts[3],
      nationality     |-> parts[4],
      birth_date      |-> parts[5],
      tech_passport   |-> None ]

handle_manual_data ==
    /\ state = AWAITING_MANUAL_DATA
    /\ \E lines \in Texts :
         LET parts == Parts(lines)
             ev == [Event("handle_manual_data") EXCEPT !.lines = lines]
         IN  IF Len(parts) # 5
             THEN Done([ev EXCEPT !.exc = "caught"], AWAITING_MANUAL_DATA, user_data, {}, <<>>)
             ELSE Done(ev, AWAITING_TECH_PASSPORT_1,
                       Put(user_data, "passport_data", ManualPassport(parts)),
                       TechPassport1Buttons, <<>>)

\* Variant: the vehicle fallback returns a photo state instead.
suggest_manual_vehicle_input_wrong_state == AWAITING_TECH_PASSPORT_1

\* suggest_manual_vehicle_input
ManualVehicleButtons == {"back_to_tech_passport_1", "restart"}

suggest_manual_vehicle_input == AWAITING_MANUAL_VEHICLE_DATA

\* show_vehicle_data_for_confirmation: setdefault on the dict it is given.
\* The placeholder is the source's Ukrainian "not specified", transliterated.
NotSpecified == "Ne vkazano"

\* Variant: no placeholder is set for the owner.
WithPlaceholdersButOwner(data) ==
    LET d1 == SetDefault(data, "vehicle_registration_number", NotSpecified)
        d2 == SetDefault(d1, "registration_date", NotSpecified)
        d4 == SetDefault(d2, "vehicle_identification_number", NotSpecified)
    IN  SetDefault(d4, "make", NotSpecified)

VehicleConfirmButtons == {"confirm_vehicle", "edit_vehicle", "back_to_tech_passport_2", "restart"}

WithPlaceholders(data) ==
    LET d1 == SetDefault(data, "vehicle_registration_number", NotSpecified)
        d2 == SetDefault(d1, "registration_date", NotSpecified)
        d3 == SetDefault(d2, "owner_name", NotSpecified)
        d4 == SetDefault(d3, "vehicle_identification_number", NotSpecified)
    IN  SetDefault(d4, "make", NotSpecified)

show_vehicle_data_for_confirmation(data) ==
    [ data |-> WithPlaceholders(data), next |-> AWAITING_VEHICLE_CONFIRM,
      buttons |-> VehicleConfirmButtons ]

\* handle_tech_passport_1: the first page of the vehicle document.
TechPassport2Buttons == {"back_to_passport_data", "restart"}

handle_tech_passport_1 ==
    /\ state = AWAITING_TECH_PASSPORT_1
    /\ \/ PhotoFailed(Event("handle_tech_passport_1"), AWAITING_TECH_PASSPORT_1, user_data, <<>>)
       \/ \E run \in VehicleOutcomes, fault \in Faults \ {"download"} :
            LET job_id == run.job_id
                mindee_response == run.mindee_response
                vehicle_data == extract_vehicle_data(mindee_response)
                ev1 == [Event("handle_tech_passport_1") EXCEPT !.job_id = job_id]
                ev2 == [ev1 EXCEPT !.answer =
                           IF NotDict(mindee_response) THEN "none" ELSE "payload"]
                ev3 == [ev2 EXCEPT !.rec = vehicle_data]
                Reply(ev, next, record, buttons, log) ==
                    IF fault = "reply"
                    THEN PhotoFailed(ev, AWAITING_TECH_PASSPORT_1, record, log)
                    ELSE Done(ev, next, record, buttons, log)
            IN  IF Falsy(job_id)
                THEN Reply(ev1, AWAITING_TECH_PASSPORT_1, user_data, {},
                           <<"upload_document">>)
                ELSE IF NotDict(mindee_response)
                THEN Reply(ev2, suggest_manual_vehicle_input, user_data, ManualVehicleButtons,
                           <<"upload_document", "get_result">>)
                ELSE IF NotDict(vehicle_data)
                THEN Reply(ev3, suggest_manual_vehicle_input, user_data, ManualVehicleButtons,
                           <<"upload_document", "get_result">>)
                ELSE Reply(ev3, AWAITING_TECH_PASSPORT_2,
                           Put(user_data, "vehicle_data", vehicle_data), TechPassport2Buttons,
                           <<"upload_document", "get_result">>)

\* f"{given_name} {surname}".strip() of values that carry no outer blanks
OwnerName(given_name, surname) ==
    LET g == Str(given_name)
        n == Str(surname)
    IN  IF g = "" THEN n ELSE IF n = "" THEN g ELSE g \o " " \o n

\* Variant: the update is applied the other way round, so first-pass values win.
MergeSecondPassFirstWins(additional_data) ==
    Update(additional_data, GetData("vehicle_data"))

\* handle_tech_passport_2: the second page, merged into the first.
MergeSecondPass(additional_data) ==
    LET vehicle_data == Update(GetData("vehicle_data"), additional_data)
        passport_data == GetData("passport_data")
        owner_name == OwnerName(Get(passport_data, "given_name", ""),
                                Get(passport_data, "surname", ""))
    IN  IF Falsy(Get(vehicle_data, "owner_name", None)) /\ ~Falsy(owner_name)
        THEN Put(vehicle_data, "owner_name", owner_name)
        ELSE vehicle_data

handle_tech_passport_2 ==
    /\ state = AWAITING_TECH_PASSPORT_2
    /\ \/ PhotoFailed(Event("handle_tech_passport_2"), AWAITING_TECH_PASSPORT_2, user_data, <<>>)
       \/ \E run \in VehicleOutcomes, fault \in Faults \ {"download"} :
            LET job_id == run.job_id
                mindee_response == run.mindee_response
                additional_data == extract_vehicle_data(mindee_response)
                ev1 == [Event("handle_tech_passport_2") EXCEPT !.job_id = job_id]
                ev2 == [ev1 EXCEPT !.answer =
                           IF NotDict(mindee_response) THEN "none" ELSE "payload"]
                ev3 == [ev2 EXCEPT !.rec = additional_data]
                Reply(ev, next, record, buttons, log) ==
                    IF fault = "reply"
                    THEN PhotoFailed(ev, AWAITING_TECH_PASSPORT_2, record, log)
                    ELSE Done(ev, next, record, buttons, log)
            IN  IF Falsy(job_id)
                THEN Reply(ev1, AWAITING_TECH_PASSPORT_2, user_data, {},
                           <<"upload_document">>)
                ELSE IF NotDict(mindee_response)
                THEN Reply(ev2, suggest_manual_vehicle_input, user_data, ManualVehicleButtons,
                           <<"upload_document", "get_result">>)
                ELSE IF NotDict(additional_data)
                THEN Reply(ev3, suggest_manual_vehicle_input, user_data, ManualVehicleButtons,
                           <<"upload_document", "get_result">>)
                ELSE LET view == show_vehicle_data_for_confirmation(
                                     MergeSecondPass(additional_data)) IN
                     Reply([ev3 EXCEPT !.shown = view.data], view.next,
                           Put(user_data, "vehicle_data", view.data),
                           view.buttons, <<"upload_document", "get_result">>)

\* handle_manual_vehicle_data: four lines of vehicle data.  The owner name
\* is given_name + ' ' + surname of the passport data: user_data['passport_data']
\* raises KeyError when there is none, and None + ' ' raises TypeError.
ManualVehicle(parts, passport_data) ==
    [ vehicle_registration_number   |-> parts[1],
      registration_date             |-> parts[2],
      vehicle_identification_number |-> parts[3],
      make                          |-> parts[4],
      owner_name                    |-> Get(passport_data, "given_name", "") \o " "
                                          \o Get(passport_data, "surname", ""),
      insurance_details             |-> "[]" ]

ManualVehicleRaises(parts) ==
    \/ Len(parts) # 4
    \/ "passport_data" \notin DOMAIN user_data
    \/ Get(user_data["passport_data"], "given_name", "") = None
    \/ Get(user_data["passport_data"], "surname", "") = None

handle_manual_vehicle_data ==
    /\ state = AWAITING_MANUAL_VEHICLE_DATA
    /\ \E lines \in Texts :
         LET parts == Parts(lines)
             ev == [Event("handle_manual_vehicle_data") EXCEPT !.lines = lines]
         IN  IF ManualVehicleRaises(parts)
             THEN Done([ev EXCEPT !.exc = "caught"], AWAITING_MANUAL_VEHICLE_DATA,
                       user_data, {}, <<>>)
             ELSE LET view == show_vehicle_data_for_confirmation(
                                  ManualVehicle(parts, user_data["passport_data"])) IN
                  Done([ev EXCEPT !.shown = view.data], view.next,
                       Put(user_data, "vehicle_data", view.data), view.buttons, <<>>)

\* show_agreement
AgreementButtons == {"agree", "decline", "back_to_vehicle_confirm", "restart"}

show_agreement == AWAITING_AGREEMENT

\* confirm_vehicle_data: links the registration number to the passport data;
\* user_data['passport_data'] raises KeyError when there is none.
confirm_vehicle_data ==
    /\ state = AWAITING_VEHICLE_CONFIRM
    /\ Pressed("confirm_vehicle")
    /\ LET ev == [Event("confirm_vehicle_data") EXCEPT !.data = "confirm_vehicle"]
           vehicle_data == GetData("vehicle_data")
       IN  IF "passport_data" \notin DOMAIN user_data
           THEN Done([ev EXCEPT !.exc = "unhandled"], state, user_data, keyboard, <<>>)
           ELSE Done(ev, show_agreement,
                     Put(user_data, "passport_data",
                         Put(user_data["passport_data"], "tech_passport",
                             Get(vehicle_data, "vehicle_registration_number", ""))),
                     AgreementButtons, <<>>)

\* edit_vehicle_data
edit_vehicle_data ==
    /\ state = AWAITING_VEHICLE_CONFIRM
    /\ Pressed("edit_vehicle")
    /\ Done([Event("edit_vehicle_data") EXCEPT !.data = "edit_vehicle"],
            AWAITING_MANUAL_VEHICLE_DATA, user_data, {}, <<>>)

(***************************************************************************)
(* services/groq_service.py: the policy text.  A text built from a         *)
(* template is the record of the values its slots are filled with.         *)
(***************************************************************************)
\* What the remote endpoint comes to, and what chat_completion returns for
\* it: the generated content, or None on any exception (the connection, the
\* timeout, raise_for_status, a JSON without choices[0].message.content).
RemoteOutcomes ==
    {"network_error", "timeout", "error_status", "malformed", "empty_text", "text"}

chat_completion(remote) ==
    CASE remote = "text" -> "Generated policy"
      [] remote = "empty_text" -> ""
      [] OTHER -> None

Completions == {chat_completion(remote) : remote \in RemoteOutcomes}

\* f"POL-{uuid.uuid4().hex[:6].upper()}" and datetime.now() as "%d.%m.%Y"
PolicyNumbers == {"POL-1A2B3C", "POL-4D5E6F"}

CurrentDate == "03.11.2026"

\* The slots both templates fill from the two dicts.
Slots(passport_data, vehicle_data) ==
    [ holder   |-> Str(Get(passport_data, "given_name", "")) \o " "
                     \o Str(Get(passport_data, "surname", "")),
      passport |-> Str(Get(passport_data, "passport_number", "")),
      birth_date |-> Str(Get(passport_data, "birth_date", "")),
      make     |-> Get(vehicle_data, "make", ""),
      vehicle_registration_number |-> Get(vehicle_data, "vehicle_registration_number", ""),
      vehicle_identification_number |-> Get(vehicle_data, "vehicle_identification_number", ""),
      registration_date |-> Get(vehicle_data, "registration_date", "") ]

Text(kind, policy_number, current_date, slots) ==
    [ kind |-> kind, policy_number |-> policy_number, current_date |-> current_date,
      slots |-> slots ]

\* _generate_fallback_policy
_generate_fallback_policy(policy_number, current_date, passport_data, vehicle_data) ==
    Text("fallback", policy_number, current_date, Slots(passport_data, vehicle_data))

\* Variant: what chat_completion returned is returned as it is.
KeepCompletion(completion, fallback) == [kind |-> "remote", text |-> completion]

\* if not policy_text: policy_text = self._generate_fallback_policy(...)
OrFallback(completion, fallback) ==
    IF Falsy(completion) THEN fallback ELSE [kind |-> "remote", text |-> completion]

\* generate_insurance_policy(data): the prompt sent and the text returned.
generate_insurance_policy(data, policy_number, current_date, completion) ==
    LET passport_data == Get(data, "passport_data", EmptyDict)
        vehicle_data == Get(data, "vehicle_data", EmptyDict)
    IN  [ prompt |-> Text("prompt", policy_number, current_date,
                          Slots(passport_data, vehicle_data)),
          policy_text |-> OrFallback(completion,
                              _generate_fallback_policy(policy_number, current_date,
                                                        passport_data, vehicle_data)) ]

\* handle_agreement: "decline" ends the conversation; "agree" generates the
\* policy text, writes it to a file, sends the file and removes it.  Writing
\* or sending may raise, and nothing in the handler catches it.
AgreeFaults == {"none", "write", "send"}

\* Variant: the file is removed before it is sent.
AgreeCallsRemoveFirst ==
    <<"generate_insurance_policy", "open_w", "os_remove", "send_document">>

AgreeCalls == <<"generate_insurance_policy", "open_w", "send_document", "os_remove">>

\* Variant: "decline" falls through to the branch of "agree".
HandleDeclineFallsThrough ==
    /\ Pressed("decline")
    /\ Done([Event("handle_agreement") EXCEPT !.data = "decline"], END, user_data, {},
            AgreeCalls)

HandleDecline ==
    /\ Pressed("decline")
    /\ Done([Event("handle_agreement") EXCEPT !.data = "decline"], END, user_data, {}, <<>>)

HandleAgree ==
    /\ Pressed("agree")
    /\ \E fault \in AgreeFaults, completion \in Completions, policy_number \in PolicyNumbers :
         LET generated == generate_insurance_policy(user_data, policy_number,
                                                    CurrentDate, completion)
             ev == [Event("handle_agreement") EXCEPT
                       !.data = "agree", !.completion = completion,
                       !.prompt = generated.prompt, !.policy = generated.policy_text]
         IN
         CASE fault = "write" ->
                Done([ev EXCEPT !.exc = "unhandled"], state, user_data, {},
                     SubSeq(AgreeCalls, 1, 2))
           [] fault = "send" ->
                Done([ev EXCEPT !.exc = "unhandled"], state, user_data, {},
                     SubSeq(AgreeCalls, 1, 3))
           [] OTHER ->
                Done(ev, END, user_data, {}, AgreeCalls)

handle_agreement ==
    /\ state = AWAITING_AGREEMENT
    /\ (HandleDecline \/ HandleAgree)

\* handle_back_button: the "back_to_..." buttons and "restart", in any state.
BackButtons ==
    { "back_to_photo", "back_to_passport_confirm", "back_to_tech_passport_1",
      "back_to_tech_passport_2", "back_to_vehicle_confirm", "back_to_passport_data",
      "restart" }

handle_back_button ==
    /\ state \in States
    /\ \E data \in BackButtons :
         /\ Pressed(data)
         /\ LET ev == [Event("handle_back_button") EXCEPT !.data = data] IN
            CASE data = "back_to_photo" ->
                   Done(ev, AWAITING_PHOTO, user_data, {}, <<>>)
              [] data \in {"back_to_passport_confirm", "back_to_passport_data"} ->
                   LET view == show_data_for_confirmation(GetData("passport_data")) IN
                   Done([ev EXCEPT !.exc = view.exc], view.next, user_data, view.buttons, <<>>)
              [] data = "back_to_tech_passport_1" ->
                   Done(ev, AWAITING_TECH_PASSPORT_1, user_data, {}, <<>>)
              [] data = "back_to_tech_passport_2" ->
                   Done(ev, AWAITING_TECH_PASSPORT_2, user_data, {}, <<>>)
              [] data = "back_to_vehicle_confirm" ->
                   LET view == show_vehicle_data_for_confirmation(GetData("vehicle_data")) IN
                   Done([ev EXCEPT !.shown = view.data], view.next,
                        IF "vehicle_data" \in DOMAIN user_data
                        THEN Put(user_data, "vehicle_data", view.data)
                        ELSE user_data,
                        view.buttons, <<>>)
              [] OTHER ->
                   Done(ev, AWAITING_PHOTO, EmptyDict, StartButtons, <<>>)

\* Variant: /cancel is not handled while a text is awaited.
cancelNotInManualStates ==
    /\ state \in States \ {AWAITING_MANUAL_DATA, AWAITING_MANUAL_VEHICLE_DATA}
    /\ Done(Event("cancel"), END, user_data, {"restart"}, <<>>)

\* cancel: /cancel in any state of the conversation.
cancel ==
    /\ state \in States
    /\ Done(Event("cancel"), END, user_data, {"restart"}, <<>>)

\* ConversationHandler.check_update: the handlers of the conversation's state
\* are tried in order, and while no conversation is in progress only the
\* entry point /start is.  A button press that none of them matches is
\* handled by nothing: no handler runs, no message is sent or edited.
Handled(s) ==
    CASE s = END -> {}
      [] s = AWAITING_CONFIRM -> {"confirm", "edit"} \cup BackButtons
      [] s = AWAITING_VEHICLE_CONFIRM -> {"confirm_vehicle", "edit_vehicle"} \cup BackButtons
      [] s = AWAITING_AGREEMENT -> {"agree", "decline"} \cup BackButtons
      [] OTHER -> BackButtons

not_handled ==
    \E data \in AllButtons \ Handled(state) :
        /\ Pressed(data)
        /\ Done([Event("not_handled") EXCEPT !.data = data], state, user_data, keyboard, <<>>)

\* No conversation is in progress and the record is empty.
NoConversation ==
    /\ state = END
    /\ user_data = EmptyDict
    /\ keyboard = {}
    /\ calls = <<>>
    /\ last = Event("init")

\* MindeeBaseAPI.__init__ (retry_delay 2, which MindeeVehicleAPI keeps) and
\* MindeePassportAPI.__init__ (retry_delay 3): no request made yet.
RetryDelays == {2, 3}

NoSleep == [k |-> -1, header |-> None, delay |-> 0]

NoAnswer == [kind |-> "-", retry_after |-> None]

NoPoll == [k |-> -1, status |-> "-", delay |-> 0]

NoUpload == [kind |-> "-", status |-> 0, job_id |-> None]

NothingReturned == [method |-> "-", value |-> None, of |-> NoUpload]

Constructed(delay) ==
    /\ retry_delay = delay
    /\ pc = "idle"
    /\ request_attempt = 0
    /\ clock = 0
    /\ sent = <<>>
    /\ slept = NoSleep
    /\ outcome = "-"
    /\ received = NoAnswer
    /\ caller = "-"
    /\ poll_attempt = 0
    /\ polled = NoPoll
    /\ returned = NothingReturned

\* The chats whose presses of "agree" are followed, and nothing on disk.
Chats == {1, 2}

NotPressed ==
    [at |-> "idle", policy_text |-> NoneDict, txt_path |-> None,
     document |-> NoneDict, exc |-> "none"]

NoAgreement ==
    /\ chats = [c \in Chats |-> EmptyDict]
    /\ handling = [c \in Chats |-> NotPressed]
    /\ files = EmptyDict

Init ==
    /\ NoConversation
    /\ Constructed(2)
    /\ NoAgreement

Next ==
    \/ start
    \/ handle_photo
    \/ confirm_data
    \/ edit_data
    \/ handle_manual_data
    \/ handle_tech_passport_1
    \/ handle_tech_passport_2
    \/ handle_manual_vehicle_data
    \/ confirm_vehicle_data
    \/ edit_vehicle_data
    \/ handle_agreement
    \/ handle_back_button
    \/ cancel
    \/ not_handled

Spec == Init /\ [][Next]_vars

(***************************************************************************)
(* MindeeBaseAPI._make_request, one pass of its for loop at a time, against *)
(* the provider's answers; the calls of one client instance follow each    *)
(* other with no delay between them.                                       *)
(***************************************************************************)
MaxRequests == 6

\* Variant: the delay grows linearly with the attempt.
LinearBackoff(k) ==
    IF retry_delay * (k + 1) < 60 THEN retry_delay * (k + 1) ELSE 60

\* Variant: the delay does not grow.
ConstantBackoff(k) == retry_delay

\* _calculate_backoff: min(self.retry_delay * (2 ** attempt), 60)
_calculate_backoff(k) ==
    IF retry_delay * (2 ^ k) < 60 THEN retry_delay * (2 ^ k) ELSE 60

\* What one requests.request comes to: a response that raise_for_status
\* accepts; HTTP 429 without a Retry-After header, or with one that gives
\* seconds or a date; or an exception (the connection, the timeout, the
\* HTTPError of another error status).
RetryAfterValues == {None, "1", "Wed, 21 Oct 2026 07:28:00 GMT"}

Answers ==
    { [kind |-> "ok", retry_after |-> None], [kind |-> "error", retry_after |-> None] }
        \cup { [kind |-> "429", retry_after |-> h] : h \in RetryAfterValues }

\* int(header) of the header values above; int of a date raises ValueError.
IsInt(header) == header = "1"

int(header) == IF header = "1" THEN 1 ELSE 0

\* time.sleep(seconds) after the attempt k
Sleep(k, header, seconds) ==
    /\ clock' = clock + seconds
    /\ slept' = [k |-> k, header |-> header, delay |-> seconds]

\* Variant: a 429 does not use up an attempt.
SameAttempt(k) == k

\* `continue` after a 429: the for loop goes to its next attempt.
AfterContinue(k) == k + 1

\* The call enters the loop: attempt = 0.
call_make_request ==
    /\ pc = "idle"
    /\ Len(sent) < MaxRequests
    /\ pc' = "loop"
    /\ request_attempt' = 0
    /\ outcome' = "-"
    /\ received' = NoAnswer
    /\ UNCHANGED <<retry_delay, clock, sent, slept>>
    /\ UNCHANGED conversation_vars
    /\ UNCHANGED agreement_vars

\* The pass of the loop for `attempt`.
_make_request ==
    /\ pc = "loop"
    /\ Len(sent) < MaxRequests
    /\ sent' = Append(sent, clock)
    /\ \E answer \in Answers :
         /\ received' = answer
         /\ CASE answer.kind = "ok" ->
                   /\ pc' = "idle"
                   /\ outcome' = "response"
                   /\ UNCHANGED <<request_attempt, clock, slept>>
              [] answer.kind = "429" /\ (answer.retry_after = None \/ IsInt(answer.retry_after)) ->
                   /\ Sleep(request_attempt, answer.retry_after,
                            IF answer.retry_after = None
                            THEN _calculate_backoff(request_attempt)
                            ELSE int(answer.retry_after))
                   /\ request_attempt' = AfterContinue(request_attempt)
                   /\ IF AfterContinue(request_attempt) < max_attempts
                      THEN UNCHANGED <<pc, outcome>>
                      ELSE pc' = "idle" /\ outcome' = "nothing"
              [] OTHER ->
                   IF request_attempt = max_attempts - 1
                   THEN /\ pc' = "idle"
                        /\ outcome' = "raise"
                        /\ UNCHANGED <<request_attempt, clock, slept>>
                   ELSE /\ Sleep(request_attempt, answer.retry_after,
                               _calculate_backoff(request_attempt))
                        /\ request_attempt' = request_attempt + 1
                        /\ UNCHANGED <<pc, outcome>>
    /\ UNCHANGED retry_delay
    /\ UNCHANGED conversation_vars
    /\ UNCHANGED agreement_vars

ClientInit ==
    /\ NoConversation
    /\ \E delay \in RetryDelays : Constructed(delay)
    /\ NoAgreement

(***************************************************************************)
(* The methods of a client that call _make_request: upload_document,       *)
(* get_result with its polling loop, and _get_document_data.               *)
(***************************************************************************)
\* The caller has taken what _make_request came to.
Taken ==
    /\ outcome' = "-"
    /\ received' = NoAnswer
    /\ UNCHANGED <<retry_delay, pc, request_attempt, sent, slept>>

\* A pass of the loop of _make_request inside the method that is running.
request_pass ==
    /\ caller # "-"
    /\ _make_request
    /\ UNCHANGED method_vars

\* upload_document: POSTs the file.
call_upload_document ==
    /\ caller = "-"
    /\ call_make_request
    /\ caller' = "upload_document"
    /\ polled' = NoPoll
    /\ returned' = NothingReturned
    /\ UNCHANGED poll_attempt

\* The status and the JSON of a response that raise_for_status accepts.
UploadBodies ==
    { [status |-> 202, job_id |-> "job1"],
      [status |-> 202, job_id |-> None],
      [status |-> 200, job_id |-> "job1"] }

\* upload_document: what it returns for what _make_request came to.
upload_document_returns ==
    /\ caller = "upload_document"
    /\ pc = "idle"
    /\ outcome # "-"
    /\ \E body \in UploadBodies :
         LET r == IF outcome = "response"
                  THEN [kind |-> "response", status |-> body.status, job_id |-> body.job_id]
                  ELSE [kind |-> outcome, status |-> 0, job_id |-> None]
         IN  returned' = [method |-> "upload_document", value |-> upload_document(r), of |-> r]
    /\ caller' = "-"
    /\ Taken
    /\ UNCHANGED <<clock, poll_attempt, polled>>
    /\ UNCHANGED conversation_vars
    /\ UNCHANGED agreement_vars

\* get_result(job_id) with a job id: enters the polling loop, attempt = 0.
call_get_result ==
    /\ caller = "-"
    /\ call_make_request
    /\ caller' = "get_result"
    /\ poll_attempt' = 0
    /\ polled' = NoPoll
    /\ returned' = NothingReturned

\* What the status JSON of a poll says: the job is completed and names its
\* document, is completed and names none, has failed, or anything else.
PollStatuses == {"completed_doc", "completed_nodoc", "failed", "processing"}

\* Variant: the loop goes on without sleeping.
PollAgainAtOnce(status) ==
    /\ polled' = [k |-> poll_attempt, status |-> status, delay |-> 0]
    /\ poll_attempt' = poll_attempt + 1
    /\ UNCHANGED <<clock, caller, returned>>

\* get_result: time.sleep(self._calculate_backoff(attempt)) and the next
\* round of the loop, if there is one; else the final `return None`.
PollAgain(status) ==
    /\ polled' = [k |-> poll_attempt, status |-> status,
                  delay |-> _calculate_backoff(poll_attempt)]
    /\ clock' = clock + _calculate_backoff(poll_attempt)
    /\ poll_attempt' = poll_attempt + 1
    /\ IF poll_attempt + 1 < max_attempts
       THEN UNCHANGED <<caller, returned>>
       ELSE /\ caller' = "-"
            /\ returned' = [method |-> "get_result", value |-> None, of |-> NoUpload]

PollEnds(status, next_caller, value) ==
    /\ polled' = [k |-> poll_attempt, status |-> status, delay |-> 0]
    /\ caller' = next_caller
    /\ returned' = IF next_caller = "-"
                   THEN [method |-> "get_result", value |-> value, of |-> NoUpload]
                   ELSE returned
    /\ UNCHANGED <<clock, poll_attempt>>

\* get_result: the body of the loop after its _make_request.
get_result_poll ==
    /\ caller = "get_result"
    /\ pc = "idle"
    /\ outcome # "-"
    /\ Taken
    /\ IF outcome = "response"
       THEN \E status \in PollStatuses :
              CASE status = "completed_doc" -> PollEnds(status, "_get_document_data", None)
                [] status = "completed_nodoc" -> PollEnds(status, "-", "queue_data")
                [] status = "failed" -> PollEnds(status, "-", None)
                [] OTHER -> PollAgain(status)
       ELSE IF poll_attempt = max_attempts - 1
            THEN PollEnds("exception", "-", None)
            ELSE PollAgain("exception")
    /\ UNCHANGED conversation_vars
    /\ UNCHANGED agreement_vars

\* The request of the next round of the loop, and that of _get_document_data.
next_request ==
    /\ caller \in {"get_result", "_get_document_data"}
    /\ outcome = "-"
    /\ call_make_request
    /\ UNCHANGED method_vars

\* _get_document_data: the JSON of the document, None on an exception;
\* get_result returns it.
_get_document_data ==
    /\ caller = "_get_document_data"
    /\ pc = "idle"
    /\ outcome # "-"
    /\ Taken
    /\ caller' = "-"
    /\ returned' = [method |-> "get_result",
                    value |-> IF outcome = "response" THEN "document" ELSE None,
                    of |-> NoUpload]
    /\ UNCHANGED <<clock, poll_attempt, polled>>
    /\ UNCHANGED conversation_vars
    /\ UNCHANGED agreement_vars

ClientNext ==
    \/ call_upload_document
    \/ upload_document_returns
    \/ call_get_result
    \/ get_result_poll
    \/ next_request
    \/ _get_document_data
    \/ request_pass

ClientSpec == ClientInit /\ [][ClientNext]_vars

(***************************************************************************)
(* handle_agreement on "agree", for several chats, with the file it writes. *)
(* A run gives way to the runs of other chats where it awaits: in          *)
(* generate_insurance_policy, in edit_message_text and in send_document.   *)
(* The runs of two chats overlap when the Application handles updates      *)
(* concurrently; built with the library's defaults, as telegram_bot.py     *)
(* builds it, it handles one update after the other, and then only the     *)
(* behaviours in which one run ends before the next begins occur.          *)
(***************************************************************************)
\* Who presses: the given name and surname in the passport data of a chat.
Holders ==
    { [given_name |-> "Ivan", surname |-> "Ivanov"],
      [given_name |-> "Petro", surname |-> "Petrenko"] }

\* datetime.now().strftime('%Y%m%d')
Days == {"20261103", "20261104"}

\* utils/file_utils.py generate_policy_filename (the names have no blanks
\* at their ends for strip() to remove)
generate_policy_filename(passport_data, day) ==
    "insurance_" \o Str(Get(passport_data, "given_name", "")) \o "_"
        \o Str(Get(passport_data, "surname", "")) \o "_" \o day \o ".txt"

\* os.remove(path)
Remove(dir, path) ==
    IF DOMAIN dir \ {path} = {} THEN EmptyDict
    ELSE [x \in DOMAIN dir \ {path} |-> dir[x]]

Raised(c, exc) == handling' = [handling EXCEPT ![c].at = "raised", ![c].exc = exc]

\* "agree" is pressed in the chat c: the message is edited and the policy
\* text is asked for.
agree_pressed(c) ==
    /\ handling[c].at = "idle"
    /\ handling' = [handling EXCEPT ![c].at = "generating"]
    /\ UNCHANGED <<chats, files>>

\* What open(txt_path, "w") and f.write come to: the text is written, open
\* raises (no file), or write raises (the file is there, without the text).
WriteFaults == {"none", "open", "write"}

\* The text is there: txt_path is made and the text is written to it.
write_policy(c) ==
    /\ handling[c].at = "generating"
    /\ \E completion \in Completions, policy_number \in PolicyNumbers,
          day \in Days, fault \in WriteFaults :
         LET policy_text == generate_insurance_policy(chats[c], policy_number,
                                                      CurrentDate, completion).policy_text
             txt_path == generate_policy_filename(Get(chats[c], "passport_data", EmptyDict), day)
             run == [handling[c] EXCEPT !.policy_text = policy_text, !.txt_path = txt_path]
         IN  CASE fault = "open" ->
                    /\ handling' = [handling EXCEPT ![c] =
                                        [run EXCEPT !.at = "raised", !.exc = "OSError"]]
                    /\ UNCHANGED files
               [] fault = "write" ->
                    /\ handling' = [handling EXCEPT ![c] =
                                        [run EXCEPT !.at = "raised", !.exc = "OSError"]]
                    /\ files' = Put(files, txt_path, [writer |-> c, text |-> NoneDict])
               [] OTHER ->
                    /\ handling' = [handling EXCEPT ![c] = [run EXCEPT !.at = "written"]]
                    /\ files' = Put(files, txt_path, [writer |-> c, text |-> policy_text])
    /\ UNCHANGED chats

\* The message is edited; open(txt_path, "rb") and the read of the file
\* for send_document.
open_for_delivery(c) ==
    /\ handling[c].at = "written"
    /\ IF handling[c].txt_path \in DOMAIN files
       THEN handling' = [handling EXCEPT ![c].at = "sending",
                                         ![c].document = files[handling[c].txt_path]]
       ELSE Raised(c, "FileNotFoundError")
    /\ UNCHANGED <<chats, files>>

\* send_document ends, and after it os.remove(txt_path).
SendFaults == {"none", "send"}

deliver_and_remove(c) ==
    /\ handling[c].at = "sending"
    /\ \E fault \in SendFaults :
         IF fault = "send"
         THEN Raised(c, "TelegramError") /\ UNCHANGED files
         ELSE IF handling[c].txt_path \in DOMAIN files
         THEN /\ handling' = [handling EXCEPT ![c].at = "done"]
              /\ files' = Remove(files, handling[c].txt_path)
         ELSE Raised(c, "FileNotFoundError") /\ UNCHANGED files
    /\ UNCHANGED chats

AgreeInit ==
    /\ NoConversation
    /\ Constructed(2)
    /\ chats \in [Chats -> {[passport_data |-> holder] : holder \in Holders}]
    /\ handling = [c \in Chats |-> NotPressed]
    /\ files = EmptyDict

AgreeStep(c) ==
    /\ \/ agree_pressed(c)
       \/ write_policy(c)
       \/ open_for_delivery(c)
       \/ deliver_and_remove(c)
    /\ UNCHANGED conversation_vars
    /\ UNCHANGED client_vars

AgreeNext == \E c \in Chats : AgreeStep(c)

AgreeSpec == AgreeInit /\ [][AgreeNext]_vars

(***************************************************************************)
(* Properties.  `last`, `calls` and `state` describe the update handled    *)
(* last, so a property of one handling is a predicate of the state reached *)
(* by it; where it compares with the record before the handling it is a    *)
(* property of the step.                                                   *)
(***************************************************************************)
Range(seq) == {seq[i] : i \in 1..Len(seq)}

PhotoHandlers == {"handle_photo", "handle_tech_passport_1", "handle_tech_passport_2"}

\* The manual-input state that matches a photo handler.
ManualOf(h) ==
    IF h = "handle_photo" THEN AWAITING_MANUAL_DATA ELSE AWAITING_MANUAL_VEHICLE_DATA

\* The handling met no transport failure and raised nothing.
Smooth(ev) == ev.exc = "none"

\* The upload was made and gave no job id.
NoJobId(ev) ==
    ev.h \in PhotoHandlers /\ Smooth(ev) /\ Falsy(ev.job_id)

\* A job id was obtained and awaiting the result gave no payload.
NoPayload(ev) ==
    ev.h \in PhotoHandlers /\ Smooth(ev) /\ ~Falsy(ev.job_id) /\ ev.answer = "none"

\* A mapped record that carries no recognized value: no record, or every
\* field None (or the empty list of insurance details).
NoRecognizedValue(rec) ==
    rec = NoneDict \/ \A k \in DOMAIN rec : Falsy(rec[k])

\* The number of lines of a text that are not blank.
NonBlankCount(lines) ==
    Cardinality({i \in 1..Len(lines) : lines[i] \notin {"", BlankLine}})

\* The i-th non-blank line of a text, trimmed.
RECURSIVE NonBlank(_, _)
NonBlank(lines, i) ==
    IF lines[1] \in {"", BlankLine} THEN NonBlank(Tail(lines), i)
    ELSE IF i = 1 THEN strip(lines[1])
    ELSE NonBlank(Tail(lines), i - 1)

\* C1: in each photo-awaiting state, an upload that yields no job id moves
\* the conversation to the matching manual-input state, and no status poll
\* is issued for that photo.
C1_NoJobIdGoesToManual ==
    NoJobId(last) =>
        /\ state = ManualOf(last.h)
        /\ "get_result" \notin Range(calls)

\* C2: in each photo-awaiting state, when a job id was obtained but awaiting
\* the result yields no payload, the conversation moves to the matching
\* manual-input state and the record is left unchanged.
C2_NoPayloadGoesToManual ==
    [][ NoPayload(last') =>
          /\ state' = ManualOf(last'.h)
          /\ user_data' = user_data ]_vars

C2_Witness ==
    /\ NoPayload(last)
    /\ last.h = "handle_tech_passport_2"
    /\ state = AWAITING_MANUAL_VEHICLE_DATA
    /\ "vehicle_data" \in DOMAIN user_data

\* C3: for both document kinds, a payload that is absent or whose mapped
\* record carries no recognized value moves the conversation to the matching
\* manual-input state, and no identity or vehicle record without a
\* recognized value is ever stored.
C3_EmptyRecordGoesToManual ==
    /\ ( /\ last.h \in PhotoHandlers
         /\ Smooth(last)
         /\ ~Falsy(last.job_id)
         /\ NoRecognizedValue(last.rec) )
       => state = ManualOf(last.h)
    /\ \A k \in DOMAIN user_data : ~NoRecognizedValue(user_data[k])

\* A photo handling whose extractor returned a non-empty dict and whose
\* replies did not raise.
Extracted(ev) ==
    ev.h \in PhotoHandlers /\ Smooth(ev) /\ ~NotDict(ev.rec)

\* C4: when upload, polling, fetch and mapping succeed with a non-empty
\* record, the handler stores the record and advances (identity photo ->
\* AWAITING_CONFIRM, vehicle photo 1 -> AWAITING_TECH_PASSPORT_2, vehicle
\* photo 2 -> AWAITING_VEHICLE_CONFIRM), never to a manual-input state.
C4_SuccessStoresAndAdvances ==
    Extracted(last) =>
        CASE last.h = "handle_photo" ->
               /\ state = AWAITING_CONFIRM
               /\ "passport_data" \in DOMAIN user_data
               /\ user_data["passport_data"] = last.rec
          [] last.h = "handle_tech_passport_1" ->
               /\ state = AWAITING_TECH_PASSPORT_2
               /\ "vehicle_data" \in DOMAIN user_data
               /\ user_data["vehicle_data"] = last.rec
          [] OTHER ->
               /\ state = AWAITING_VEHICLE_CONFIRM
               /\ "vehicle_data" \in DOMAIN user_data
               /\ \A k \in DOMAIN last.rec :
                    /\ k \in DOMAIN user_data["vehicle_data"]
                    /\ user_data["vehicle_data"][k] = last.rec[k]

C4_Witness ==
    /\ Extracted(last)
    /\ last.h = "handle_tech_passport_2"
    /\ "make" \in DOMAIN last.rec
    /\ state = AWAITING_VEHICLE_CONFIRM
    /\ user_data["vehicle_data"]["vehicle_registration_number"] = "AA1234BB"

\* The line count a manual-input handler requires.
TextHandlers == {"handle_manual_data", "handle_manual_vehicle_data"}

RequiredLines(h) == IF h = "handle_manual_data" THEN 5 ELSE 4

\* C5 as stated: a text whose line count differs from the required count is
\* rejected: the conversation stays in the same manual-input state and the
\* record is what it was before the input.
C5_WrongLineCountRejected ==
    [][ (last'.h \in TextHandlers /\ Len(last'.lines) # RequiredLines(last'.h)) =>
          /\ state' = state
          /\ user_data' = user_data ]_vars

\* C5 amended: a text whose count of non-blank lines differs from the
\* required count is rejected: the conversation stays in the same
\* manual-input state and the record is what it was before the input.
C5_WrongNonBlankCountRejected ==
    [][ (last'.h \in TextHandlers /\ NonBlankCount(last'.lines) # RequiredLines(last'.h)) =>
          /\ state' = state
          /\ user_data' = user_data
          /\ last'.exc = "caught" ]_vars

C5_Witness ==
    /\ last.h = "handle_manual_data"
    /\ Len(last.lines) = 5
    /\ NonBlankCount(last.lines) = 4
    /\ state = AWAITING_MANUAL_DATA
    /\ "passport_data" \in DOMAIN user_data

\* The fields a manual text fills, in line order.
IdentityFields ==
    <<"surname", "given_name", "document_number", "nationality", "birth_date">>

VehicleFields ==
    <<"vehicle_registration_number", "registration_date",
      "vehicle_identification_number", "make">>

StoredInOrder(record, fields, lines) ==
    \A i \in 1..Len(fields) :
        /\ fields[i] \in DOMAIN record
        /\ record[fields[i]] = NonBlank(lines, i)

\* C6: in any manual-input state, a text with exactly the required number of
\* non-blank lines is accepted: line i is stored in field i (identity:
\* surname, given_name, document_number, nationality, birth_date; vehicle:
\* registration number, registration date, VIN, make) and the conversation
\* advances (identity -> AWAITING_TECH_PASSPORT_1, vehicle ->
\* AWAITING_VEHICLE_CONFIRM).
C6_RightLineCountAccepted ==
    /\ (last.h = "handle_manual_data" /\ NonBlankCount(last.lines) = 5) =>
          /\ state = AWAITING_TECH_PASSPORT_1
          /\ "passport_data" \in DOMAIN user_data
          /\ StoredInOrder(user_data["passport_data"], IdentityFields, last.lines)
    /\ (last.h = "handle_manual_vehicle_data" /\ NonBlankCount(last.lines) = 4) =>
          /\ state = AWAITING_VEHICLE_CONFIRM
          /\ "vehicle_data" \in DOMAIN user_data
          /\ StoredInOrder(user_data["vehicle_data"], VehicleFields, last.lines)

\* C7: in a confirmation state, "confirm" advances (AWAITING_CONFIRM ->
\* AWAITING_TECH_PASSPORT_1, AWAITING_VEHICLE_CONFIRM -> AWAITING_AGREEMENT)
\* and "edit" moves to the matching manual-input state; neither calls the
\* OCR or the generation collaborator.
C7_ConfirmAdvancesEditGoesToManual ==
    /\ last.h = "confirm_data" => state = AWAITING_TECH_PASSPORT_1 /\ calls = <<>>
    /\ last.h = "edit_data" => state = AWAITING_MANUAL_DATA /\ calls = <<>>
    /\ last.h = "confirm_vehicle_data" => state = AWAITING_AGREEMENT /\ calls = <<>>
    /\ last.h = "edit_vehicle_data" => state = AWAITING_MANUAL_VEHICLE_DATA /\ calls = <<>>

\* A handling of the "agree" button; a precedes every b in the call log.
Agreed(ev) == ev.h = "handle_agreement" /\ ev.data = "agree"

Precedes(a, b, log) ==
    \A j \in 1..Len(log) : log[j] = b => \E i \in 1..(j - 1) : log[i] = a

\* C8: in AWAITING_AGREEMENT, "agree" performs, in this order, generation,
\* write, delivery and deletion of the artifact, and the conversation is
\* then in END; the artifact is never delivered before it is written and
\* never deleted before it is delivered.
C8_AgreeOrder ==
    Agreed(last) =>
        /\ Precedes("generate_insurance_policy", "open_w", calls)
        /\ Precedes("open_w", "send_document", calls)
        /\ Precedes("send_document", "os_remove", calls)
        /\ Smooth(last) =>
             /\ calls = <<"generate_insurance_policy", "open_w", "send_document", "os_remove">>
             /\ state = END

C8_Witness ==
    /\ Agreed(last)
    /\ Smooth(last)
    /\ state = END
    /\ Len(calls) = 4

\* A handling of the "decline" button.
Declined(ev) == ev.h = "handle_agreement" /\ ev.data = "decline"

\* C9: in AWAITING_AGREEMENT, "decline" ends the conversation without
\* generating, writing or delivering anything.
C9_DeclineEndsWithoutCalls ==
    Declined(last) => state = END /\ calls = <<>>

C9_Witness ==
    /\ Declined(last)
    /\ state = END
    /\ "vehicle_data" \in DOMAIN user_data

\* C10: /cancel is accepted in every non-terminal state and moves the
\* conversation to END in that one step, without a collaborator call.
C10_CancelEverywhere ==
    /\ state \in States => ENABLED cancel
    /\ last.h = "cancel" => state = END /\ calls = <<>>

C10_Witness ==
    /\ last.h = "cancel"
    /\ state = END
    /\ "passport_data" \in DOMAIN user_data

\* C11: whenever the conversation is in END (after cancel, decline or a
\* completed agree) the record holds neither passport_data nor vehicle_data,
\* so the session that /start opens afterwards begins with an empty record.
C11_EndHoldsNoData ==
    state = END => DOMAIN user_data \cap {"passport_data", "vehicle_data"} = {}

\* C12: a press of the "restart" button, wherever the last message offers it
\* (the message of /cancel included), clears the whole record and puts the
\* conversation in AWAITING_PHOTO, from every state.
C12_RestartClearsAndReenters ==
    [][ (last'.data = "restart" /\ "restart" \in keyboard) =>
          /\ state' = AWAITING_PHOTO
          /\ user_data' = EmptyDict ]_vars

\* How far a state is along the conversation: the photo of the passport, its
\* data, the two pages of the vehicle document, its data, the agreement.
Rank(s) ==
    CASE s = AWAITING_PHOTO -> 1
      [] s \in {AWAITING_CONFIRM, AWAITING_MANUAL_DATA} -> 2
      [] s = AWAITING_TECH_PASSPORT_1 -> 3
      [] s \in {AWAITING_TECH_PASSPORT_2, AWAITING_MANUAL_VEHICLE_DATA} -> 4
      [] s = AWAITING_VEHICLE_CONFIRM -> 5
      [] s = AWAITING_AGREEMENT -> 6
      [] OTHER -> 7

\* A press of a "back" button that the last message offers.
BackPressed(ev, offered) ==
    /\ ev.h = "handle_back_button"
    /\ ev.data # "restart"
    /\ ev.data \in offered

\* C13: the back button offered in a state, pressed after any sequence of
\* inputs that reaches the state (manual entry of the passport data
\* included), moves the conversation to an earlier confirmation or capture
\* state, makes no collaborator call, leaves the record as it is, and never
\* raises.
C13_BackRedisplaysEarlierState ==
    [][ BackPressed(last', keyboard) =>
          /\ last'.exc = "none"
          /\ calls' = <<>>
          /\ user_data' = user_data
          /\ Rank(state') < Rank(state) ]_vars

\* C14: an exception raised while a photo is handled is caught by the
\* handler and leaves the conversation in the same photo-awaiting state (not
\* in a manual-input state) with the record as it was before the photo.
C14_PhotoExceptionKeepsStateAndRecord ==
    [][ (last'.h \in PhotoHandlers /\ last'.exc = "caught") =>
          /\ state' = state
          /\ user_data' = user_data ]_vars

\* C15: for every state and every input its handlers accept, after any
\* sequence of earlier inputs, the handling ends in a state the handler
\* returned; no handler terminates with an exception that nothing catches.
C15_NoUnhandledException ==
    last.exc # "unhandled"

\* The fields for which a mapped vehicle record carries a value read from the
\* document (the empty list of insurance details is the mapping's default).
Supplied(rec) == {k \in DOMAIN rec : ~Falsy(rec[k])}

\* A second-pass photo that was mapped and merged.
SecondPassMerged(ev) == ev.h = "handle_tech_passport_2" /\ Extracted(ev)

\* C16: after the second vehicle pass is merged, every field of the first
\* pass that the second-pass document did not supply (insurance_details
\* included) still has its first-pass value, and every field the second-pass
\* document supplied has the second-pass value.
C16_MergeKeepsFirstPassValues ==
    [][ SecondPassMerged(last') =>
          LET first == GetData("vehicle_data")
              merged == user_data'["vehicle_data"]
          IN  /\ \A k \in DOMAIN first \ Supplied(last'.rec) :
                    k \in DOMAIN merged /\ merged[k] = first[k]
              /\ \A k \in Supplied(last'.rec) :
                    k \in DOMAIN merged /\ merged[k] = last'.rec[k] ]_vars

\* A four-line vehicle text that was accepted.
ManualVehicleStored(ev) == ev.h = "handle_manual_vehicle_data" /\ Smooth(ev)

\* given_name + " " + surname of the passport data held.
HolderName(passport_data) ==
    Get(passport_data, "given_name", "") \o " " \o Get(passport_data, "surname", "")

\* C17: once the vehicle record is completed (second pass merged, or manual
\* vehicle text accepted) while passport data is held, owner_name is the
\* owner name extracted from the document when there is one (or the one
\* already in the record), and otherwise given_name + " " + surname of the
\* passport data held, whether that came from OCR or from manual entry.
C17_OwnerNameExtractedOrHolder ==
    [][ ( /\ SecondPassMerged(last') \/ ManualVehicleStored(last')
          /\ "passport_data" \in DOMAIN user_data ) =>
          LET first == GetData("vehicle_data")
              owner_name == user_data'["vehicle_data"]["owner_name"]
          IN  IF SecondPassMerged(last') /\ "owner_name" \in DOMAIN last'.rec
              THEN owner_name = last'.rec["owner_name"]
              ELSE IF SecondPassMerged(last') /\ "owner_name" \in DOMAIN first
              THEN owner_name = first["owner_name"]
              ELSE owner_name = HolderName(user_data["passport_data"]) ]_vars

\* The five fields show_vehicle_data_for_confirmation displays.
VehicleDisplayKeys ==
    { "vehicle_registration_number", "registration_date", "owner_name",
      "vehicle_identification_number", "make" }

\* The handling showed vehicle data for confirmation.
VehicleShown(ev) == ev.shown # NoneDict

\* C18: every time vehicle data is shown for confirmation (after the second
\* pass, after manual vehicle entry, on back from the agreement), each of
\* the five display fields has a defined value: the value held (extracted by
\* this pass, typed, or already in the record) if there is one, otherwise
\* the "not specified" placeholder.
C18_ShownFieldsDefined ==
    [][ VehicleShown(last') =>
          LET shown == last'.shown
              first == GetData("vehicle_data")
              rec == last'.rec
              lines == last'.lines
          IN  \A k \in VehicleDisplayKeys :
                /\ k \in DOMAIN shown
                /\ shown[k] # None
                /\ CASE last'.h = "handle_back_button" ->
                          shown[k] = Get(first, k, NotSpecified)
                     [] last'.h = "handle_tech_passport_2" ->
                          IF k \in DOMAIN rec THEN shown[k] = rec[k]
                          ELSE IF k \in DOMAIN first THEN shown[k] = first[k]
                          ELSE k # "owner_name" => shown[k] = NotSpecified
                     [] OTHER ->
                          \A i \in 1..Len(VehicleFields) :
                              k = VehicleFields[i] => shown[k] = NonBlank(lines, i) ]_vars

C18_Witness ==
    /\ VehicleShown(last)
    /\ last.h = "handle_tech_passport_2"
    /\ last.shown["vehicle_registration_number"] = "AA1234BB"
    /\ last.shown["make"] = NotSpecified
    /\ last.shown["owner_name"] = "Petro Petrenko"

\* settings.MINDEE_MIN_REQUEST_INTERVAL, in seconds
MINDEE_MIN_REQUEST_INTERVAL == 3

\* C19: the client throttles its outbound calls: no two consecutive requests
\* of one client instance are sent less than the minimum interval apart, so
\* N requests issued with no external delay take at least (N - 1) times the
\* minimum interval.
C19_RequestsThrottled ==
    /\ \A i \in 1..(Len(sent) - 1) :
          sent[i + 1] - sent[i] >= MINDEE_MIN_REQUEST_INTERVAL
    /\ Len(sent) > 0 =>
          sent[Len(sent)] - sent[1] >= (Len(sent) - 1) * MINDEE_MIN_REQUEST_INTERVAL

\* The attempts for which the backoff is examined beyond those a call makes.
MaxBackoffAttempt == 8

\* base_delay doubled k times, and the smaller of two numbers.
RECURSIVE Doubled(_, _)
Doubled(base_delay, k) == IF k = 0 THEN base_delay ELSE 2 * Doubled(base_delay, k - 1)

Min(a, b) == IF a <= b THEN a ELSE b

\* C20: for every zero-indexed attempt k, the delay slept when no
\* Retry-After header is present is min(base_delay * 2^k, 60); the delay is
\* non-decreasing in k and never exceeds 60.
C20_BackoffIsCappedDoubling ==
    /\ (slept.k >= 0 /\ slept.header = None) =>
          slept.delay = Min(Doubled(retry_delay, slept.k), 60)
    /\ \A k \in 0..MaxBackoffAttempt :
          /\ _calculate_backoff(k) = Min(Doubled(retry_delay, k), 60)
          /\ _calculate_backoff(k) <= 60
          /\ k > 0 => _calculate_backoff(k - 1) <= _calculate_backoff(k)

C20_Witness ==
    /\ retry_delay = 3
    /\ slept = [k |-> 4, header |-> None, delay |-> 48]
    /\ outcome = "nothing"
    /\ _calculate_backoff(5) = 60

\* C21: when a request receives HTTP 429 on attempt k, the client sleeps for
\* the Retry-After seconds if the header is present and otherwise for
\* backoff(k), and then goes on to re-issue the request; the 429 is never
\* handed to the caller as a response.
C21_RateLimitedSleepsAndReissues ==
    received.kind = "429" =>
        /\ slept.k = request_attempt - 1
        /\ received.retry_after = None => slept.delay = _calculate_backoff(slept.k)
        /\ IsInt(received.retry_after) => slept.delay = int(received.retry_after)
        /\ outcome # "response"
        /\ pc = "loop"

\* C22: an error other than 429 on attempt k is followed by a sleep of
\* backoff(k) and a retry while k is not the last attempt; an error on the
\* last of the max_attempts attempts is raised to the caller; and a call
\* makes at most max_attempts requests (one per attempt 0 .. max_attempts - 1).
C22_ErrorRetriedThenRaised ==
    /\ received.kind = "error" =>
          \/ /\ pc = "loop"
             /\ slept.k = request_attempt - 1
             /\ slept.k < max_attempts - 1
             /\ slept.delay = Min(Doubled(retry_delay, slept.k), 60)
          \/ /\ pc = "idle"
             /\ outcome = "raise"
             /\ request_attempt = max_attempts - 1
    /\ request_attempt <= max_attempts
    /\ pc = "loop" => request_attempt < max_attempts

C22_Witness ==
    /\ received.kind = "error"
    /\ outcome = "raise"
    /\ request_attempt = max_attempts - 1
    /\ slept = [k |-> 3, header |-> None, delay |-> 24]

\* The wait of get_result is over, with this value.
WaitEnded(value) ==
    /\ caller = "-"
    /\ returned.method = "get_result"
    /\ returned.value = value

\* C23: awaiting a job result polls the status at most max_attempts times
\* (attempts 0 .. max_attempts - 1).  A poll that reports "failed" ends the
\* wait at once with no payload and no further poll; a poll that reports
\* the job still in process at attempt k is followed by a sleep of
\* backoff(k) and, while attempts are left, by the next poll; a poll that
\* reports "completed" ends the polling and the wait returns what the
\* provider gave for the finished job; using up the attempts ends the wait
\* with no payload.
C23_PollingBoundedAndDecided ==
    /\ poll_attempt <= max_attempts
    /\ (caller = "get_result" /\ pc = "loop") => poll_attempt < max_attempts
    /\ polled.status = "failed" =>
          WaitEnded(None) /\ polled.delay = 0 /\ poll_attempt = polled.k
    /\ polled.status = "processing" =>
          /\ polled.delay = Min(Doubled(retry_delay, polled.k), 60)
          /\ poll_attempt = polled.k + 1
          /\ IF polled.k < max_attempts - 1
             THEN caller = "get_result"
             ELSE WaitEnded(None)
    /\ polled.status = "completed_doc" =>
          /\ poll_attempt = polled.k
          /\ \/ caller = "_get_document_data"
             \/ WaitEnded("document")
             \/ WaitEnded(None)
    /\ polled.status = "completed_nodoc" =>
          WaitEnded("queue_data") /\ poll_attempt = polled.k
    /\ (polled.status = "exception" /\ polled.k = max_attempts - 1) => WaitEnded(None)

C23_Witness ==
    /\ polled = [k |-> 1, status |-> "completed_doc", delay |-> 0]
    /\ WaitEnded("document")
    /\ clock = retry_delay
    /\ Len(sent) = 3

\* C24: upload_document returns a job id only when the provider answered
\* with status 202 and the response carries a job id, and then returns that
\* id; for every other status, for a response without a job id, and when
\* _make_request raised or came back with nothing it returns None.
C24_JobIdOnlyWhenAccepted ==
    returned.method = "upload_document" =>
        LET accepted == /\ returned.of.kind = "response"
                        /\ returned.of.status = 202
                        /\ returned.of.job_id # None
        IN  /\ accepted => returned.value = returned.of.job_id
            /\ ~accepted => returned.value = None

C24_Witness ==
    /\ returned.method = "upload_document"
    /\ returned.value = "job1"
    /\ returned.of.status = 202
    /\ Len(sent) = 2


\* A returned policy text has something in it: generated content that is not
\* empty, or the fallback template (which has fixed wording around its slots).
NonEmptyText(text) ==
    IF text.kind = "remote" THEN ~Falsy(text.text) ELSE text.kind = "fallback"

\* C25: for the record held in any state (with or without identity and
\* vehicle data) and for every remote outcome, generate_insurance_policy
\* returns a non-empty text, and every outcome other than a generated text
\* (network error, timeout, error status, malformed response, empty text)
\* gives the local fallback text; so does the run of "agree".
C25_GenerationAlwaysGivesText ==
    /\ \A remote \in RemoteOutcomes, policy_number \in PolicyNumbers :
          LET text == generate_insurance_policy(user_data, policy_number, CurrentDate,
                                                chat_completion(remote)).policy_text
          IN  /\ NonEmptyText(text)
              /\ remote # "text" => text.kind = "fallback"
    /\ Agreed(last) =>
          /\ NonEmptyText(last.policy)
          /\ Falsy(last.completion) => last.policy.kind = "fallback"

C25_Witness ==
    /\ Agreed(last)
    /\ last.completion = None
    /\ last.policy.kind = "fallback"


\* The identity document number a record holds: OCR extraction stores it as
\* document_number, manual entry as passport_number.
DocumentNumber(passport_data) ==
    IF "document_number" \in DOMAIN passport_data
    THEN passport_data["document_number"]
    ELSE Get(passport_data, "passport_number", None)

\* The texts of one call built from a template: the prompt, and the policy
\* text when it is the fallback.
TemplateTexts(ev) ==
    {ev.prompt} \cup (IF ev.policy.kind = "fallback" THEN {ev.policy} ELSE {})

EmbedsRecord(text, passport_data, vehicle_data) ==
    /\ DocumentNumber(passport_data) # None
          => text.slots.passport = DocumentNumber(passport_data)
    /\ \A k \in DOMAIN vehicle_data \cap
                 {"make", "vehicle_registration_number",
                  "vehicle_identification_number", "registration_date"} :
          text.slots[k] = vehicle_data[k]

\* C26: on "agree", the prompt and the fallback text embed the collected
\* fields, in particular the identity document number, whether the identity
\* came from OCR extraction or from manual entry, and the fallback text has
\* the policy number and the date of the prompt of the same call.
C26_TextsEmbedDocumentNumber ==
    Agreed(last) =>
        \A text \in TemplateTexts(last) :
            /\ EmbedsRecord(text, GetData("passport_data"), GetData("vehicle_data"))
            /\ text.policy_number = last.prompt.policy_number
            /\ text.current_date = last.prompt.current_date

\* The same for an identity entered by hand.
C26_ManualIdentityEmbedded ==
    Agreed(last) /\ "passport_number" \in DOMAIN GetData("passport_data") =>
        \A text \in TemplateTexts(last) :
            /\ EmbedsRecord(text, GetData("passport_data"), GetData("vehicle_data"))
            /\ text.policy_number = last.prompt.policy_number
            /\ text.current_date = last.prompt.current_date


\* The requests the running call of _make_request has sent.
RequestsOfCall ==
    IF outcome \in {"response", "raise"} THEN request_attempt + 1 ELSE request_attempt

\* How far the running method has come: the round of the polling loop (the
\* fetch of the document counts as the round after the last poll), and in
\* the round the passes of _make_request made.
Round ==
    CASE caller = "get_result" -> poll_attempt
      [] caller = "_get_document_data" -> max_attempts
      [] OTHER -> 0

Progress ==
    CASE pc = "loop" -> 1 + request_attempt
      [] outcome # "-" -> max_attempts + 1
      [] OTHER -> 0

Measure == Round * (max_attempts + 2) + Progress

\* C27: a method of the client ends after a bounded number of requests,
\* whatever the provider answers (429, errors, still processing): a call of
\* _make_request, for the upload, for a poll or for the fetch, sends at
\* most max_attempts requests, get_result polls at most max_attempts times,
\* and every step of a running method moves it on towards its end.
C27_BoundedRequestsAndPolls ==
    /\ [](RequestsOfCall <= max_attempts)
    /\ [](caller = "get_result" => poll_attempt < max_attempts)
    /\ [](Measure <= max_attempts * (max_attempts + 2) + max_attempts + 1)
    /\ [][(caller # "-" /\ caller' # "-") => Measure' > Measure]_vars

C27_Witness ==
    /\ caller = "get_result"
    /\ poll_attempt = 1
    /\ outcome = "raise"
    /\ RequestsOfCall = max_attempts


\* C28: a call of _make_request ends in one of two ways, with a response
\* whose status is not an error or with the error raised; it never comes
\* back with nothing, also when every attempt received HTTP 429.
C28_ResponseOrRaise ==
    (pc = "idle" /\ outcome # "-") =>
        /\ outcome \in {"response", "raise"}
        /\ outcome = "response" => received.kind = "ok"

\* The part of it that holds: what is returned as a response is a response
\* that raise_for_status accepted, and a call ends with nothing only after a
\* 429 on its last attempt.
C28_ResponseIsAccepted ==
    (pc = "idle" /\ outcome # "-") =>
        /\ outcome = "response" => received.kind = "ok"
        /\ outcome = "raise" => received.kind \notin {"ok", "-"}
        /\ outcome = "nothing" =>
              received.kind = "429" /\ request_attempt = max_attempts


\* The display added no field to the record: a display field that the record
\* did not hold and this handling did not supply (from the document, or
\* from the typed lines, which give them all) is not in the stored record.
DisplayOnly(first, ev, stored) ==
    \A k \in VehicleDisplayKeys :
        (k \notin DOMAIN first /\ k \notin DOMAIN ev.rec /\ ev.lines = <<>>
            /\ k # "owner_name")
        => k \notin DOMAIN stored

\* The registration number linked to the identity record.
LinkedNumber == Get(GetData("passport_data"), "tech_passport", None)

\* C29: showing the vehicle data for confirmation leaves the stored record
\* as it was: the placeholders are only displayed, so the stored record
\* gains no field by the display, and the placeholder is never the
\* registration number linked to the identity record or put in the policy.
C29_PlaceholdersAreDisplayOnly ==
    /\ [][ VehicleShown(last') =>
              /\ last'.h = "handle_back_button" => user_data' = user_data
              /\ "vehicle_data" \in DOMAIN user_data' =>
                    DisplayOnly(GetData("vehicle_data"), last', user_data'["vehicle_data"])
         ]_vars
    /\ [](LinkedNumber # NotSpecified)
    /\ [](Agreed(last) =>
              last.prompt.slots.vehicle_registration_number # NotSpecified)

\* Its parts, one by one.
C29_BackLeavesRecord ==
    [][ (VehicleShown(last') /\ last'.h = "handle_back_button")
            => user_data' = user_data ]_vars

C29_PlaceholderNotLinked == LinkedNumber # NotSpecified

C29_PlaceholderNotPrinted ==
    Agreed(last) => last.prompt.slots.vehicle_registration_number # NotSpecified


\* C30: whenever the conversation is in AWAITING_AGREEMENT, however it got
\* there, the record holds passport data and vehicle data, and the
\* tech_passport of the passport data is the registration number the
\* vehicle data holds.
C30_AgreementHoldsLinkedRecord ==
    state = AWAITING_AGREEMENT =>
        /\ "passport_data" \in DOMAIN user_data
        /\ "vehicle_data" \in DOMAIN user_data
        /\ "vehicle_registration_number" \in DOMAIN user_data["vehicle_data"]
        /\ LinkedNumber = user_data["vehicle_data"]["vehicle_registration_number"]

\* Its parts: the passport data is always held there; and when vehicle data
\* is held, the linked number is its registration number.
C30_AgreementHoldsIdentity ==
    state = AWAITING_AGREEMENT => "passport_data" \in DOMAIN user_data

C30_LinkedWhenVehicleHeld ==
    (state = AWAITING_AGREEMENT /\ "vehicle_data" \in DOMAIN user_data) =>
        LinkedNumber = Get(user_data["vehicle_data"], "vehicle_registration_number", "")


\* The run of handle_agreement in the chat c is over.
Finished(c) == handling[c].at \in {"done", "raised"}

\* C31: when the handling of "agree" is over, however it ended (the policy
\* delivered, or the writing or the delivery failed), no file that this
\* handling wrote is left on disk.
C31_NoArtifactLeft ==
    \A c \in Chats :
        Finished(c) => \A path \in DOMAIN files : files[path].writer # c

\* The part of it that holds: a handling that ends without an exception
\* leaves no file at its path, whoever wrote it.
C31_SuccessLeavesNoFile ==
    \A c \in Chats :
        (handling[c].at = "done" /\ \A d \in Chats \ {c} : handling[d].at = "idle")
            => files = EmptyDict

\* The file of the chat c is as c wrote it.
OwnFile(c) ==
    /\ handling[c].txt_path \in DOMAIN files
    /\ files[handling[c].txt_path] = [writer |-> c, text |-> handling[c].policy_text]

C32_DistinctPathsKeepApart ==
    \A c \in Chats :
        (\A d \in Chats \ {c} : handling[d].txt_path # handling[c].txt_path) =>
            /\ handling[c].at = "written" => OwnFile(c)
            /\ handling[c].at \in {"sending", "done"} =>
                  handling[c].document = [writer |-> c, text |-> handling[c].policy_text]
            /\ handling[c].exc # "FileNotFoundError"

=============================================================================
